---- MODULE Spec2Model ----
(***************************************************************************)
(* Streaming video pipeline of iw3 / nunif:                                *)
(*   nunif/utils/video.py : FixedFPSFilter, test_output_size,              *)
(*                          process_video, process_video_keyframes         *)
(*   iw3/utils.py         : process_video_full (frame_callback,            *)
(*                          run_minibatch), process_video                  *)
(* The multimedia engine (PyAV) is the environment: what a filter graph    *)
(* produces for a pushed frame, what a packet decodes to and when an       *)
(* encoder releases packets are nondeterministic choices.                  *)
(***************************************************************************)
EXTENDS Integers, Sequences, FiniteSets, TLC

\* ---------------------------------------------------------------- bounds
MaxPackets == 2        \* packets the input container yields at most
MaxDecode == 2         \* frames one video packet decodes to at most
MaxDup == 2            \* frames a filter graph produces for one push at most
MaxBatch == 3          \* largest configured depth batch size
MaxStall == 1          \* pushes the priming filter may answer with nothing
MaxFrames == 3         \* video frames decoded in a run at most
MaxProduced == 3       \* frames the run's rate filter produces at most
MaxHeld == 1           \* frames an encoder holds back at most
MaxFlush == 3          \* flushes under SpecCallback
MaxPush == 5           \* pushes under SpecCallback
MaxKeyframes == 3      \* keyframes decoded in keyframe mode
MaxGap == 3            \* largest pts distance (ticks) between two keyframes
MaxInterval == 2       \* largest keyframe interval (seconds)
MaxImages == 5         \* images the loader yields at most
MaxCells == 3          \* cells of a depth grid at most
MaxDepth == 2          \* largest depth value (int16 in the program)
MaxW == 3              \* widest picture row that is warped
MaxLevel == 2          \* normalized depth and convergence are k / MaxLevel, k in 0..MaxLevel
MaxDivergence == 2     \* largest divergence
TicksPerSec == 2       \* 1 / time_base of the video stream
SrcW == 2              \* width of the source pictures
SrcH == 1              \* height of the source pictures

\* ---------------------------------------------------------------- state
VARIABLES
    pc,               \* position in process_video / process_video_keyframes
    args,             \* the run's arguments (immutable)
    stop_event,       \* state of the cancellation flag: is_set()
    minibatch_queue,  \* pending pictures of process_video_full
    cb,               \* account of the synthesis callback's invocations
    input,            \* the input container
    output,           \* the output container: opened, closed, muxed packets
    fps_filter,       \* sink of the run's rate filter, frames it produced
    test_filter,      \* sink of the priming rate filter
    video_stream,     \* video encoder: output size, buffered and encoded frames
    audio,            \* audio policy and audio encoder
    loop,             \* the demux loop: current packet, polls, frames emitted
    eos,              \* steps taken after the demux loop ended
    kf,               \* keyframe mode: prev_sec, last pts, frames decoded and processed
    images,           \* process_images: the loop, the write tasks, files on disk
    tensor            \* argument and result of a tensor function

vars == <<pc, args, stop_event, minibatch_queue, cb, input, output, fps_filter,
          test_filter, video_stream, audio, loop, eos, kf, images, tensor>>

\* The state of a video run, which the other operations leave alone.
video_vars == <<minibatch_queue, cb, input, output, fps_filter, test_filter,
                video_stream, audio, loop, eos, kf>>

None == [kind |-> "none"]
OneFrame(f) == [kind |-> "frame", frame |-> f]
FrameList(fs) == [kind |-> "list", frames |-> fs]

\* A decoded or filtered picture: identity and dimensions.
Picture(i) == [id |-> i, w |-> SrcW, h |-> SrcH]

\* ------------------------------------------------- synthesis (iw3/utils.py)
\* postprocess_image + VU.from_image: the side-by-side picture of a source
\* picture (left and right eye concatenated along the width).
\* Variant: the synthesized picture keeps the source width.
postprocess_image_single(f) == [id |-> f.id, w |-> f.w, h |-> f.h]

postprocess_image(f) == [id |-> f.id, w |-> f.w + f.w, h |-> f.h]

\* Variant: the pictures of a batch come back in reverse order.
Synthesize_reversed(fs) == [i \in 1..Len(fs) |-> postprocess_image(fs[Len(fs) + 1 - i])]

Synthesize(fs) == [i \in 1..Len(fs) |-> postprocess_image(fs[i])]

\* Variant: the batch size is never halved.
minibatch_size_unhalved(a) == a.zoed_batch_size

\* minibatch_size = args.zoed_batch_size // 2 or 1 if args.tta else args.zoed_batch_size
minibatch_size_of(a) ==
    IF a.tta
    THEN (IF a.zoed_batch_size \div 2 = 0 THEN 1 ELSE a.zoed_batch_size \div 2)
    ELSE a.zoed_batch_size

minibatch_size == minibatch_size_of(args)

\* Variant: a batch returns its first picture only and keeps the others queued.
run_minibatch_first_only(queue) ==
    IF queue = <<>>
    THEN [queue |-> queue, ret |-> FrameList(<<>>), batch |-> 0]
    ELSE [queue |-> Tail(queue), ret |-> FrameList(<<Synthesize(queue)[1]>>),
          batch |-> Len(queue)]

\* Variant: the queue is not cleared after a batch.
run_minibatch_keeps_queue(queue) ==
    [queue |-> queue, ret |-> FrameList(Synthesize(queue)), batch |-> Len(queue)]

\* run_minibatch(): [queue after, list returned, pictures given to batch_infer]
run_minibatch(queue) ==
    IF queue = <<>>
    THEN [queue |-> queue, ret |-> FrameList(<<>>), batch |-> 0]
    ELSE [queue |-> <<>>, ret |-> FrameList(Synthesize(queue)), batch |-> Len(queue)]

\* Variant: the batch runs only once the queue exceeds the threshold.
frame_callback_late(a, queue, frame) ==
    IF ~a.low_vram
    THEN IF frame.kind = "none"
         THEN run_minibatch(queue)
         ELSE IF Len(Append(queue, frame.frame)) > minibatch_size_of(a)
              THEN run_minibatch(Append(queue, frame.frame))
              ELSE [queue |-> Append(queue, frame.frame), ret |-> None, batch |-> 0]
    ELSE IF frame.kind = "none"
         THEN [queue |-> queue, ret |-> None, batch |-> 0]
         ELSE [queue |-> queue, ret |-> OneFrame(postprocess_image(frame.frame)),
               batch |-> 1]

\* frame_callback(frame); frame is None or OneFrame(picture).
frame_callback(a, queue, frame) ==
    IF ~a.low_vram
    THEN IF frame.kind = "none"
         THEN run_minibatch(queue)
         ELSE IF Len(Append(queue, frame.frame)) >= minibatch_size_of(a)
              THEN run_minibatch(Append(queue, frame.frame))
              ELSE [queue |-> Append(queue, frame.frame), ret |-> None, batch |-> 0]
    ELSE IF frame.kind = "none"
         THEN [queue |-> queue, ret |-> None, batch |-> 0]
         ELSE [queue |-> queue, ret |-> OneFrame(postprocess_image(frame.frame)),
               batch |-> 1]

\* get_new_frames(frame_or_frames_or_none)
get_new_frames(r) ==
    IF r.kind = "none" THEN <<>>
    ELSE IF r.kind = "list" THEN r.frames
    ELSE <<r.frame>>

\* One invocation of the callback: the queue and the account of invocations.
NoCall == [arg |-> "-", before |-> 0, batch |-> 0, returned |-> 0]

CallbackAccount(c, queue, frame) ==
    LET r == frame_callback(args, queue, frame)
        n == Len(get_new_frames(r.ret))
    IN [calls    |-> c.calls + 1,
        pushed   |-> c.pushed + (IF frame.kind = "none" THEN 0 ELSE 1),
        returned |-> c.returned + n,
        infer    |-> c.infer + (IF r.batch > 0 THEN 1 ELSE 0),
        frames   |-> IF frame.kind = "none" THEN c.frames
                     ELSE Append(c.frames, frame.frame.id),
        last     |-> [arg |-> frame.kind, before |-> Len(queue),
                      batch |-> r.batch, returned |-> n]]

Invoke(frame) ==
    /\ minibatch_queue' = frame_callback(args, minibatch_queue, frame).queue
    /\ cb' = CallbackAccount(cb, minibatch_queue, frame)

Returned(frame) == get_new_frames(frame_callback(args, minibatch_queue, frame).ret)

\* --------------------------------------- rate filter (nunif/utils/video.py)
\* graph.push(frame): the filter graph appends what it produces to its sink.
graph_push(sink, produced) == sink \o produced

\* graph.pull(): the oldest frame of the sink; BlockingIOError / EOFError
\* (nothing to pull) become None.
graph_pull(sink) ==
    IF sink = <<>>
    THEN [frame |-> None, sink |-> sink]
    ELSE [frame |-> OneFrame(Head(sink)), sink |-> Tail(sink)]

\* FixedFPSFilter.update(frame): one push, then one pull.
update(sink, produced) == graph_pull(graph_push(sink, produced))

\* A graph retimes what it was given: after `pushed` frames it has produced at
\* most MaxDup frames for each of them.
CanProduce(n, k, pushed) == n + k <= MaxDup * pushed

\* The k frames a graph produces for a push when it has produced n so far;
\* sign = -1 numbers the synthetic frames of the priming filter.
Produced(n, k, sign) == [i \in 1..k |-> Picture(sign * (n + i))]

\* ------------------------------------------------------------- encoders
VideoPacket(f) == [stream |-> "video", id |-> f.id]
AudioPacket(n, reencoded) == [stream |-> "audio", id |-> n, reencoded |-> reencoded]

\* stream.encode(frame): the encoder keeps the frame, or releases packets for
\* everything it holds (release is the encoder's choice while it holds fewer
\* than MaxHeld frames).
encode(buf, frame, release) ==
    IF release \/ Len(buf) >= MaxHeld
    THEN [buf |-> <<>>, packets |-> Append(buf, frame)]
    ELSE [buf |-> Append(buf, frame), packets |-> <<>>]

\* Variant: packets are written ahead of what the container holds.
mux_ahead(muxed, packets) == IF packets # <<>> THEN packets \o muxed ELSE muxed

\* output_container.mux(enc_packet), guarded by `if enc_packet:`
mux(muxed, packets) == IF packets # <<>> THEN muxed \o packets ELSE muxed

\* for new_frame in get_new_frames(...): encode, mux.  release[i] is the
\* encoder's choice for the i-th frame.
RECURSIVE encode_and_mux(_, _, _, _, _)
encode_and_mux(buf, muxed, frames, release, i) ==
    IF i > Len(frames)
    THEN [buf |-> buf, muxed |-> muxed]
    ELSE LET e == encode(buf, VideoPacket(frames[i]), release[i])
         IN encode_and_mux(e.buf, mux(muxed, e.packets), frames, release, i + 1)

\* ------------------------------------------------------------------ Init
FullArgs ==
    { a \in [keyframe : {FALSE}, low_vram : BOOLEAN, tta : BOOLEAN,
             zoed_batch_size : 1..MaxBatch, keyframe_interval : {0},
             has_stop_event : BOOLEAN, resume : {FALSE}, yes : {FALSE}] :
        a.low_vram => a.zoed_batch_size = 1 }

KeyframeArgs ==
    [keyframe : {TRUE}, low_vram : {FALSE}, tta : {FALSE},
     zoed_batch_size : {1}, keyframe_interval : 0..MaxInterval,
     has_stop_event : BOOLEAN, resume : {FALSE}, yes : {FALSE}]

\* Runs of process_video_full with every combination of --resume and --yes.
OverwriteArgs ==
    [keyframe : {FALSE}, low_vram : {TRUE}, tta : {FALSE},
     zoed_batch_size : {1}, keyframe_interval : {0},
     has_stop_event : {FALSE}, resume : BOOLEAN, yes : BOOLEAN]

\* The output path before the run: whether a file exists there; whether the
\* prompt was shown and what was typed.
OutputFile(exists) ==
    [opened |-> FALSE, closed |-> FALSE, muxed |-> <<>>, exists |-> exists,
     prompted |-> FALSE, answer |-> ""]

NoPacket == [type |-> "-", dts |-> FALSE, frames |-> 0]

InitRun ==
    /\ stop_event = FALSE
    /\ minibatch_queue = <<>>
    /\ cb = [calls |-> 0, pushed |-> 0, returned |-> 0, infer |-> 0,
             frames |-> <<>>, last |-> NoCall]
    /\ input = [opened |-> FALSE, closed |-> FALSE, has_video |-> FALSE,
                has_audio |-> FALSE, demuxed |-> 0, decoded |-> 0]
    /\ fps_filter = [sink |-> <<>>, produced |-> 0]
    /\ test_filter = [sink |-> <<>>, produced |-> 0, stalls |-> 0, pushed |-> 0]
    /\ video_stream = [created |-> FALSE, width |-> 0, height |-> 0,
                       buf |-> <<>>, encoded |-> <<>>]
    /\ audio = [copy |-> "unset", rate |-> 0, template_fails |-> FALSE,
                buf |-> <<>>, encoded |-> <<>>]
    /\ loop = [packet |-> NoPacket, polls |-> 0, observed |-> FALSE,
               emitted |-> <<>>, audio_in |-> <<>>,
               output_size |-> <<0, 0>>, primed |-> 0]
    /\ eos = <<>>
    /\ kf = [prev_sec |-> 0, pts |-> 0, decoded |-> 0, called |-> <<>>,
             seen |-> <<>>]

NoImages ==
    [yielded |-> 0, skipped |-> 0, synthesized |-> 0, tasks |-> <<>>, written |-> {},
     polls |-> 0, observed |-> FALSE, at_stop |-> 0, awaited |-> 0, raised |-> FALSE,
     pbar |-> [n |-> 0, closed |-> FALSE]]

NoTensor == [fn |-> "-"]

InitState ==
    /\ InitRun
    /\ output = OutputFile(FALSE)
    /\ images = NoImages
    /\ tensor = NoTensor

Init ==
    /\ pc = "start"
    /\ args \in FullArgs \cup KeyframeArgs
    /\ InitState

\* ------------------------------------------- iw3/utils.py: process_video
Dispatch ==
    /\ pc = "start"
    /\ pc' = IF args.keyframe THEN "kf_open" ELSE "pvf"
    /\ UNCHANGED <<args, stop_event, minibatch_queue, cb, input, output, fps_filter,
                   test_filter, video_stream, audio, loop, eos, kf, images, tensor>>

\* ------------------------------------- iw3/utils.py: process_video_full
\* What may be typed at the prompt, and str.lower() on it.
Answers == {"y", "ye", "yes", "Y", "Yes", "n", "no", ""}

lower(s) ==
    CASE s = "Y" -> "y"
      [] s = "Yes" -> "yes"
      [] OTHER -> s

\* Variant: --yes is looked at before --resume.
overwrite_gate_yes_first(a, exists, answer) ==
    IF a.yes THEN "pv_open"
    ELSE IF a.resume /\ exists THEN "skipped"
    ELSE IF exists
         THEN (IF lower(answer) \notin {"y", "ye", "yes"} THEN "skipped" ELSE "pv_open")
         ELSE "pv_open"

\* Lines 500-509: return on resume, return on a declined prompt, else the pipeline.
overwrite_gate(a, exists, answer) ==
    IF a.resume /\ exists THEN "skipped"
    ELSE IF ~a.yes /\ exists
         THEN (IF lower(answer) \notin {"y", "ye", "yes"} THEN "skipped" ELSE "pv_open")
         ELSE "pv_open"

\* input(...) is called only when the second condition is evaluated and holds.
prompts(a, exists) == ~(a.resume /\ exists) /\ ~a.yes /\ exists

ProcessVideoFull ==
    /\ pc = "pvf"
    /\ IF prompts(args, output.exists)
       THEN \E y \in Answers :
               /\ output' = [output EXCEPT !.prompted = TRUE, !.answer = y]
               /\ pc' = overwrite_gate(args, output.exists, y)
       ELSE /\ pc' = overwrite_gate(args, output.exists, "")
            /\ UNCHANGED output
    /\ UNCHANGED <<args, stop_event, minibatch_queue, cb, input, fps_filter, test_filter,
                   video_stream, audio, loop, eos, kf, images, tensor>>

\* The cancellation flag is set from outside the pipeline at any moment; only the
\* loops read it, so a set after the loop has ended is not distinguished.
SetStop ==
    /\ args.has_stop_event
    /\ ~stop_event
    /\ pc \in {"pv_open", "prime", "add_streams", "demux", "video", "audio", "poll",
               "kf_open", "kf_loop", "im_loop"}
    /\ stop_event' = TRUE
    /\ UNCHANGED <<pc, args, minibatch_queue, cb, input, output, fps_filter, test_filter,
                   video_stream, audio, loop, eos, kf, images, tensor>>

\* stop_event is not None and stop_event.is_set()
stop_requested == args.has_stop_event /\ stop_event

\* -------------------------------------- nunif/utils/video.py: process_video
\* av.open(input); no video stream raises ValueError; config; av.open(output, 'w');
\* FixedFPSFilter(...)
\* Variant: the output container is opened before the video stream is looked for.
open_containers_early(has_video) ==
    IF ~has_video
    THEN [pc |-> "error", output_opened |-> TRUE]
    ELSE [pc |-> "prime", output_opened |-> TRUE]

open_containers(has_video) ==
    IF ~has_video
    THEN [pc |-> "error", output_opened |-> FALSE]
    ELSE [pc |-> "prime", output_opened |-> TRUE]

OpenContainers ==
    /\ pc = "pv_open"
    /\ \E hv \in BOOLEAN, ha \in BOOLEAN :
          /\ input' = [input EXCEPT !.opened = TRUE, !.has_video = hv, !.has_audio = ha]
          /\ pc' = open_containers(hv).pc
          /\ output' = [output EXCEPT !.opened = open_containers(hv).output_opened]
    /\ UNCHANGED <<args, stop_event, minibatch_queue, cb, fps_filter, test_filter,
                   video_stream, audio, loop, eos, kf, images, tensor>>

\* test_output_size: one turn of the inner loop (update of the priming filter with
\* the synthetic frame) and, when the filter yields a frame, the callback.
TestOutputSize ==
    /\ pc = "prime"
    /\ \E k \in 0..MaxDup :
          /\ (test_filter.sink = <<>> /\ test_filter.stalls >= MaxStall) => k > 0
          /\ CanProduce(test_filter.produced, k, test_filter.pushed + 1)
          /\ LET u == update(test_filter.sink, Produced(test_filter.produced, k, -1))
             IN IF u.frame.kind = "none"
                THEN /\ test_filter' = [test_filter EXCEPT !.stalls = @ + 1,
                                                            !.pushed = @ + 1]
                     /\ UNCHANGED <<pc, minibatch_queue, cb, loop>>
                ELSE /\ Invoke(u.frame)
                     /\ LET out == Returned(u.frame)
                        IN IF out # <<>>
                           THEN /\ loop' = [loop EXCEPT
                                        !.output_size = <<out[1].w, out[1].h>>,
                                        !.primed = cb.calls + 1]
                                /\ test_filter' = [sink |-> <<>>, produced |-> 0,
                                                   stalls |-> 0, pushed |-> 0]
                                /\ pc' = "add_streams"
                           ELSE /\ test_filter' = [test_filter EXCEPT
                                        !.sink = u.sink, !.produced = @ + k,
                                        !.pushed = @ + 1]
                                /\ UNCHANGED <<pc, loop>>
    /\ UNCHANGED <<args, stop_event, input, output, fps_filter, video_stream, audio, eos,
                   kf, images, tensor>>

AudioRates == {8000, 16000}

\* Variant: 16000 Hz itself is transcoded.
audio_copy_inclusive(rate, template_fails) ==
    IF rate <= 16000 THEN "transcode"
    ELSE IF template_fails THEN "transcode" ELSE "copy"

\* audio_copy: the decision of lines 188-198
audio_copy(rate, template_fails) ==
    IF rate < 16000 THEN "transcode"
    ELSE IF template_fails THEN "transcode" ELSE "copy"

\* output_container.add_stream("libx264", ...) and the audio output stream
AddStreams ==
    /\ pc = "add_streams"
    /\ video_stream' = [video_stream EXCEPT !.created = TRUE,
                            !.width = loop.output_size[1],
                            !.height = loop.output_size[2]]
    /\ IF input.has_audio
       THEN \E rate \in AudioRates, tf \in BOOLEAN :
               /\ (rate < 16000) => ~tf
               /\ audio' = [audio EXCEPT !.copy = audio_copy(rate, tf),
                                         !.rate = rate, !.template_fails = tf]
       ELSE UNCHANGED audio
    /\ pc' = "demux"
    /\ UNCHANGED <<args, stop_event, minibatch_queue, cb, input, output, fps_filter,
                   test_filter, loop, eos, kf, images, tensor>>

\* for packet in input_container.demux(streams): the next packet, or the end.
Demux ==
    /\ pc = "demux"
    /\ input.demuxed < MaxPackets
    /\ \E type \in {"video", "audio"}, dts \in BOOLEAN, n \in 0..MaxDecode :
          /\ type = "audio" => input.has_audio /\ n = 0
          /\ type = "video" => dts /\ input.decoded + n <= MaxFrames
          /\ input' = [input EXCEPT !.demuxed = @ + 1]
          /\ loop' = [loop EXCEPT
                 !.packet = [type |-> type, dts |-> dts, frames |-> n],
                 !.audio_in = IF type = "audio"
                              THEN Append(@, [id |-> input.demuxed + 1, dts |-> dts])
                              ELSE @]
          /\ pc' = IF type = "audio" THEN "audio"
                   ELSE IF n = 0 THEN "poll" ELSE "video"
    /\ UNCHANGED <<args, stop_event, minibatch_queue, cb, output, fps_filter,
                   test_filter, video_stream, audio, eos, kf, images, tensor>>

DemuxEnd ==
    /\ pc = "demux"
    /\ pc' = "flush_filter"
    /\ UNCHANGED <<args, stop_event, minibatch_queue, cb, input, output, fps_filter,
                   test_filter, video_stream, audio, loop, eos, kf, images, tensor>>

\* The frames the callback returned go to the video encoder one by one, and the
\* packets the encoder releases are muxed.
EncodeReturned(out, release) ==
    LET r == encode_and_mux(video_stream.buf, output.muxed, out, release, 1)
    IN /\ video_stream' = [video_stream EXCEPT !.buf = r.buf, !.encoded = @ \o out]
       /\ output' = [output EXCEPT !.muxed = r.muxed]

\* frame = fps_filter.update(frame); if frame is not None: callback, encode, mux
FilterAndSynthesize(k) ==
    LET u == update(fps_filter.sink, Produced(fps_filter.produced, k, 1))
    IN /\ fps_filter' = [sink |-> u.sink, produced |-> fps_filter.produced + k]
       /\ IF u.frame.kind = "none"
          THEN UNCHANGED <<minibatch_queue, cb, video_stream, output>>
          ELSE /\ Invoke(u.frame)
               /\ \E release \in [1..Len(Returned(u.frame)) -> BOOLEAN] :
                     EncodeReturned(Returned(u.frame), release)

Pulled(k) == update(fps_filter.sink, Produced(fps_filter.produced, k, 1)).frame

Emitted(l, k) ==
    IF Pulled(k).kind = "none" THEN l
    ELSE [l EXCEPT !.emitted = Append(@, Pulled(k).frame.id)]

\* One turn of `for frame in packet.decode()` for a video packet.
VideoFrame ==
    /\ pc = "video"
    /\ \E k \in 0..MaxDup :
          /\ CanProduce(fps_filter.produced, k, input.decoded + 1)
          /\ fps_filter.produced + k <= MaxProduced
          /\ FilterAndSynthesize(k)
          /\ loop' = [Emitted(loop, k) EXCEPT !.packet.frames = @ - 1]
    /\ input' = [input EXCEPT !.decoded = @ + 1]
    /\ pc' = IF loop.packet.frames = 1 THEN "poll" ELSE "video"
    /\ UNCHANGED <<args, stop_event, test_filter, audio, eos, kf, images, tensor>>

\* An audio packet: skipped without dts, copied, or decoded and re-encoded.
AudioPacketStep ==
    /\ pc = "audio"
    /\ LET n == input.demuxed
       IN IF ~loop.packet.dts
          THEN UNCHANGED <<output, audio>>
          ELSE IF audio.copy = "copy"
               THEN /\ output' = [output EXCEPT
                           !.muxed = mux(@, <<AudioPacket(n, FALSE)>>)]
                    /\ UNCHANGED audio
               ELSE \/ UNCHANGED <<output, audio>>       \* decodes to no frame
                    \/ \E release \in BOOLEAN :          \* decodes to one frame
                          LET e == encode(audio.buf, AudioPacket(n, TRUE), release)
                          IN /\ audio' = [audio EXCEPT !.buf = e.buf,
                                              !.encoded = Append(@, n)]
                             /\ output' = [output EXCEPT !.muxed = mux(@, e.packets)]
    /\ pc' = "poll"
    /\ UNCHANGED <<args, stop_event, minibatch_queue, cb, input, fps_filter, test_filter,
                   video_stream, loop, eos, kf, images, tensor>>

\* Variant: cancellation goes straight to closing the containers.
after_poll_abort(stop) == IF stop THEN "close_output" ELSE "demux"

\* Where the loop goes after the poll: break leads to the end-of-stream sequence.
after_poll(stop) == IF stop THEN "flush_filter" ELSE "demux"

\* Variant: the video encoder is not flushed.
end_of_stream_without_encoder(step) ==
    CASE step = "flush_filter" -> "flush_callback"
      [] step = "flush_callback" -> "close_output"
      [] step = "flush_encoder" -> "close_output"
      [] step = "close_output" -> "close_input"
      [] step = "close_input" -> "done"

\* The statements after the loop, in program order (lines 230-249).
end_of_stream(step) ==
    CASE step = "flush_filter" -> "flush_callback"
      [] step = "flush_callback" -> "flush_encoder"
      [] step = "flush_encoder" -> "close_output"
      [] step = "close_output" -> "close_input"
      [] step = "close_input" -> "done"

\* if stop_event is not None and stop_event.is_set(): break
PollStop ==
    /\ pc = "poll"
    /\ loop' = [loop EXCEPT !.polls = @ + (IF args.has_stop_event THEN 1 ELSE 0),
                            !.observed = stop_requested,
                            !.packet = NoPacket]
    /\ pc' = after_poll(stop_requested)
    /\ UNCHANGED <<args, stop_event, minibatch_queue, cb, input, output, fps_filter,
                   test_filter, video_stream, audio, eos, kf, images, tensor>>

\* frame = fps_filter.update(None) and what follows from it
FlushFilter ==
    /\ pc = "flush_filter"
    /\ \E k \in 0..MaxDup :
          /\ CanProduce(fps_filter.produced, k, input.decoded)
          /\ fps_filter.produced + k <= MaxProduced
          /\ FilterAndSynthesize(k)
          /\ loop' = Emitted(loop, k)
    /\ eos' = Append(eos, "rate_filter")
    /\ pc' = end_of_stream(pc)
    /\ UNCHANGED <<args, stop_event, input, test_filter, audio, kf, images, tensor>>

\* for new_frame in get_new_frames(frame_callback(None)): encode, mux
FlushCallback ==
    /\ pc = "flush_callback"
    /\ Invoke(None)
    /\ \E release \in [1..Len(Returned(None)) -> BOOLEAN] :
          EncodeReturned(Returned(None), release)
    /\ eos' = Append(eos, "callback")
    /\ pc' = end_of_stream(pc)
    /\ UNCHANGED <<args, stop_event, input, fps_filter, test_filter, audio, loop, kf,
                   images, tensor>>

\* packet = video_output_stream.encode(None); if packet: mux
FlushEncoder ==
    /\ pc = "flush_encoder"
    /\ output' = [output EXCEPT !.muxed = mux(@, video_stream.buf)]
    /\ video_stream' = [video_stream EXCEPT !.buf = <<>>]
    /\ eos' = Append(eos, "encoder")
    /\ pc' = end_of_stream(pc)
    /\ UNCHANGED <<args, stop_event, minibatch_queue, cb, input, fps_filter, test_filter,
                   audio, loop, kf, images, tensor>>

CloseOutput ==
    /\ pc = "close_output"
    /\ output' = [output EXCEPT !.closed = TRUE]
    /\ eos' = Append(eos, "close_output")
    /\ pc' = end_of_stream(pc)
    /\ UNCHANGED <<args, stop_event, minibatch_queue, cb, input, fps_filter, test_filter,
                   video_stream, audio, loop, kf, images, tensor>>

CloseInput ==
    /\ pc = "close_input"
    /\ input' = [input EXCEPT !.closed = TRUE]
    /\ eos' = Append(eos, "close_input")
    /\ pc' = end_of_stream(pc)
    /\ UNCHANGED <<args, stop_event, minibatch_queue, cb, output, fps_filter,
                   test_filter, video_stream, audio, loop, kf, images, tensor>>

\* ---------------------------- nunif/utils/video.py: process_video_keyframes
keyframes_open(has_video) == IF ~has_video THEN "error" ELSE "kf_loop"

KeyframesOpen ==
    /\ pc = "kf_open"
    /\ \E hv \in BOOLEAN :
          /\ input' = [input EXCEPT !.opened = TRUE, !.has_video = hv]
          /\ pc' = keyframes_open(hv)
    /\ UNCHANGED <<args, stop_event, minibatch_queue, cb, output, fps_filter,
                   test_filter, video_stream, audio, loop, eos, kf, images, tensor>>

\* math.ceil(frame.pts * video_input_stream.time_base), time_base = 1 / TicksPerSec
current_sec(pts) == (pts + TicksPerSec - 1) \div TicksPerSec

\* Variant: the distance to the last processed frame is not looked at.
due_unthrottled(sec, prev, min_interval_sec) == sec >= min_interval_sec

\* Variant: the first frame is always processed.
due_from_first(sec, prev, min_interval_sec) ==
    prev = 0 \/ sec - prev >= min_interval_sec

\* current_sec - prev_sec >= min_interval_sec
due(sec, prev, min_interval_sec) == sec - prev >= min_interval_sec

\* One turn of `for frame in input_container.decode(video_input_stream)`
KeyframesFrame ==
    /\ pc = "kf_loop"
    /\ kf.decoded < MaxKeyframes
    /\ \E gap \in 0..MaxGap :
          /\ kf.decoded > 0 => gap > 0
          /\ LET pts == kf.pts + gap
                 sec == current_sec(pts)
                 d == due(sec, kf.prev_sec, args.keyframe_interval)
                 frame == [pts |-> pts, sec |-> sec, called |-> d]
             IN kf' = IF d
                      THEN [prev_sec |-> sec, pts |-> pts, decoded |-> kf.decoded + 1,
                            called |-> Append(kf.called, sec),
                            seen |-> Append(kf.seen, frame)]
                      ELSE [kf EXCEPT !.pts = pts, !.decoded = @ + 1,
                                      !.seen = Append(@, frame)]
    /\ loop' = [loop EXCEPT !.polls = @ + (IF args.has_stop_event THEN 1 ELSE 0),
                            !.observed = stop_requested]
    /\ pc' = IF stop_requested THEN "kf_close" ELSE "kf_loop"
    /\ UNCHANGED <<args, stop_event, minibatch_queue, cb, input, output, fps_filter,
                   test_filter, video_stream, audio, eos, images, tensor>>

KeyframesEnd ==
    /\ pc = "kf_loop"
    /\ pc' = "kf_close"
    /\ UNCHANGED <<args, stop_event, minibatch_queue, cb, input, output, fps_filter,
                   test_filter, video_stream, audio, loop, eos, kf, images, tensor>>

KeyframesClose ==
    /\ pc = "kf_close"
    /\ input' = [input EXCEPT !.closed = TRUE]
    /\ pc' = "done"
    /\ UNCHANGED <<args, stop_event, minibatch_queue, cb, output, fps_filter,
                   test_filter, video_stream, audio, loop, eos, kf, images, tensor>>

\* ------------------------------------------------------------------ Spec
Next ==
    \/ Dispatch
    \/ SetStop
    \/ ProcessVideoFull
    \/ OpenContainers
    \/ TestOutputSize
    \/ AddStreams
    \/ Demux
    \/ DemuxEnd
    \/ VideoFrame
    \/ AudioPacketStep
    \/ PollStop
    \/ FlushFilter
    \/ FlushCallback
    \/ FlushEncoder
    \/ CloseOutput
    \/ CloseInput
    \/ KeyframesOpen
    \/ KeyframesFrame
    \/ KeyframesEnd
    \/ KeyframesClose

Spec == Init /\ [][Next]_vars

\* ------------------------------------ the synthesis callback on its own
\* frame_callback under any sequence of pushes and flushes.
InitCallback ==
    /\ pc = "callback"
    /\ args \in FullArgs
    /\ InitState

CallbackPush ==
    /\ pc = "callback"
    /\ cb.pushed < MaxPush
    /\ Invoke(OneFrame(Picture(cb.pushed + 1)))
    /\ UNCHANGED <<pc, args, stop_event, input, output, fps_filter, test_filter,
                   video_stream, audio, loop, eos, kf, images, tensor>>

CallbackFlush ==
    /\ pc = "callback"
    /\ cb.calls - cb.pushed < MaxFlush
    /\ Invoke(None)
    /\ UNCHANGED <<pc, args, stop_event, input, output, fps_filter, test_filter,
                   video_stream, audio, loop, eos, kf, images, tensor>>

NextCallback == CallbackPush \/ CallbackFlush

SpecCallback == InitCallback /\ [][NextCallback]_vars

\* ------------------------ process_video_full over an existing output file
InitOverwrite ==
    /\ pc = "start"
    /\ args \in OverwriteArgs
    /\ InitRun
    /\ \E exists \in BOOLEAN : output = OutputFile(exists)
    /\ images = NoImages
    /\ tensor = NoTensor

NextOverwrite ==
    \/ Dispatch
    \/ ProcessVideoFull
    \/ OpenContainers
    \/ TestOutputSize
    \/ AddStreams
    \/ Demux
    \/ DemuxEnd
    \/ VideoFrame
    \/ AudioPacketStep
    \/ PollStop
    \/ FlushFilter
    \/ FlushCallback
    \/ FlushEncoder
    \/ CloseOutput
    \/ CloseInput

SpecOverwrite == InitOverwrite /\ [][NextOverwrite]_vars

\* ------------------------------------------ iw3/utils.py: process_images
\* PoolExecutor(max_workers=4)
max_workers == 4

ImagesArgs ==
    [keyframe : {FALSE}, low_vram : {FALSE}, tta : {FALSE},
     zoed_batch_size : {1}, keyframe_interval : {0},
     has_stop_event : BOOLEAN, resume : BOOLEAN, yes : {FALSE}]

InitImages ==
    /\ pc = "im_loop"
    /\ args \in ImagesArgs
    /\ InitState

\* if im is None or (args.resume and path.exists(output_filename)): continue
skip_image(a, loaded, exists) == ~loaded \/ (a.resume /\ exists)

\* One turn of `for im, meta in loader`: the image is skipped, or synthesized and
\* its write submitted, the progress bar advanced and the cancellation flag read.
ImagesLoop ==
    /\ pc = "im_loop"
    /\ images.yielded < MaxImages
    /\ \E loaded \in BOOLEAN, exists \in BOOLEAN :
          /\ exists => (loaded /\ args.resume)
          /\ IF skip_image(args, loaded, exists)
             THEN /\ images' = [images EXCEPT !.yielded = @ + 1, !.skipped = @ + 1]
                  /\ pc' = "im_loop"
             ELSE /\ images' = [images EXCEPT
                         !.yielded = @ + 1,
                         !.synthesized = @ + 1,
                         !.tasks = Append(@, "queued"),
                         !.pbar.n = @ + 1,
                         !.polls = @ + (IF args.has_stop_event THEN 1 ELSE 0),
                         !.observed = stop_requested,
                         !.at_stop = IF stop_requested THEN images.synthesized + 1
                                     ELSE @]
                  /\ pc' = IF stop_requested THEN "im_await" ELSE "im_loop"
    /\ UNCHANGED <<args, stop_event, tensor>>
    /\ UNCHANGED video_vars

\* The loader is exhausted.
ImagesLoopEnd ==
    /\ pc = "im_loop"
    /\ pc' = "im_await"
    /\ UNCHANGED <<args, stop_event, images, tensor>>
    /\ UNCHANGED video_vars

PoolAlive == pc \in {"im_loop", "im_await", "im_exit"}

Running(tasks) == { i \in 1..Len(tasks) : tasks[i] = "running" }

Unfinished(tasks) == { i \in 1..Len(tasks) : tasks[i] \in {"queued", "running"} }

\* A free worker takes the oldest queued write task.
TaskStart ==
    /\ PoolAlive
    /\ Cardinality(Running(images.tasks)) < max_workers
    /\ \E i \in 1..Len(images.tasks) :
          /\ images.tasks[i] = "queued"
          /\ \A j \in 1..(i - 1) : images.tasks[j] # "queued"
          /\ images' = [images EXCEPT !.tasks[i] = "running"]
    /\ UNCHANGED <<pc, args, stop_event, tensor>>
    /\ UNCHANGED video_vars

\* save_image(output, output_filename) ends: the file is written, or it raised.
TaskFinish ==
    /\ PoolAlive
    /\ \E i \in Running(images.tasks) :
          \/ images' = [images EXCEPT !.tasks[i] = "done", !.written = @ \cup {i}]
          \/ images' = [images EXCEPT !.tasks[i] = "failed"]
    /\ UNCHANGED <<pc, args, stop_event, tensor>>
    /\ UNCHANGED video_vars

\* for f in futures: f.result() -- waits for the task, re-raises what it raised.
ImagesAwait ==
    /\ pc = "im_await"
    /\ IF images.awaited = Len(images.tasks)
       THEN /\ pc' = "im_exit"
            /\ UNCHANGED images
       ELSE LET f == images.tasks[images.awaited + 1]
            IN /\ f \in {"done", "failed"}
               /\ IF f = "failed"
                  THEN /\ images' = [images EXCEPT !.raised = TRUE]
                       /\ pc' = "im_exit"
                  ELSE /\ images' = [images EXCEPT !.awaited = @ + 1]
                       /\ pc' = "im_await"
    /\ UNCHANGED <<args, stop_event, tensor>>
    /\ UNCHANGED video_vars

\* Variant: the pool is left without waiting for its tasks.
shutdown_nowait(tasks) == TRUE

\* Leaving `with PoolExecutor(...)`: shutdown(wait=True) returns when every
\* submitted task has ended.
shutdown(tasks) == Unfinished(tasks) = {}

\* The with-block is left; pbar.close() runs unless an exception passes.
ImagesExit ==
    /\ pc = "im_exit"
    /\ shutdown(images.tasks)
    /\ IF images.raised
       THEN /\ pc' = "im_raised"
            /\ UNCHANGED images
       ELSE /\ pc' = "im_done"
            /\ images' = [images EXCEPT !.pbar.closed = TRUE]
    /\ UNCHANGED <<args, stop_event, tensor>>
    /\ UNCHANGED video_vars

NextImages ==
    \/ SetStop
    \/ ImagesLoop
    \/ ImagesLoopEnd
    \/ TaskStart
    \/ TaskFinish
    \/ ImagesAwait
    \/ ImagesExit

SpecImages == InitImages /\ [][NextImages]_vars

\* ----------------------------------------- iw3/utils.py: normalize_depth
\* Depth values are the int16 results of batch_infer, converted by depth.float();
\* a quotient is kept exact as numerator and denominator, NaN is what 0 / 0 gives.
NaN == [nan |-> TRUE, n |-> 0, d |-> 0]
Num(n, d) == [nan |-> FALSE, n |-> n, d |-> d]

DepthValues == (0 - 1)..MaxDepth

DepthGrids == UNION { [1..n -> DepthValues] : n \in 1..MaxCells }

SeqMin(x) == CHOOSE v \in { x[i] : i \in 1..Len(x) } : \A i \in 1..Len(x) : v <= x[i]
SeqMax(x) == CHOOSE v \in { x[i] : i \in 1..Len(x) } : \A i \in 1..Len(x) : v >= x[i]

\* a / b on floats, for b >= 0
divide(a, b) ==
    IF b = 0 THEN (IF a = 0 THEN NaN ELSE Num(IF a > 0 THEN 1 ELSE 0 - 1, 0))
    ELSE Num(a, b)

\* 1. - q
one_minus(q) == IF q.nan THEN NaN ELSE Num(q.d - q.n, q.d)

\* torch.clamp(q, 0., 1.): NaN stays NaN
clamp01(q) ==
    IF q.nan THEN NaN
    ELSE IF q.n < 0 THEN Num(0, 1)
    ELSE IF q.n > q.d THEN Num(1, 1)
    ELSE q

zeros_like(depth) == [i \in 1..Len(depth) |-> Num(0, 1)]

\* Variant: the range is not tested before the division.
normalize_depth_unguarded(depth, given, depth_min, depth_max) ==
    LET lo == IF given THEN depth_min ELSE SeqMin(depth)
        hi == IF given THEN depth_max ELSE SeqMax(depth)
    IN [i \in 1..Len(depth) |->
            clamp01(one_minus(divide(depth[i] - lo, IF hi >= lo THEN hi - lo ELSE 0)))]

\* normalize_depth(depth, depth_min, depth_max); given = depth_min is not None
normalize_depth(depth, given, depth_min, depth_max) ==
    LET lo == IF given THEN depth_min ELSE SeqMin(depth)
        hi == IF given THEN depth_max ELSE SeqMax(depth)
        d == IF hi - lo > 0
             THEN [i \in 1..Len(depth) |-> one_minus(divide(depth[i] - lo, hi - lo))]
             ELSE zeros_like(depth)
    IN [i \in 1..Len(depth) |-> clamp01(d[i])]

InitDepth ==
    /\ pc = "normalize_depth"
    /\ args \in { a \in FullArgs : a.low_vram /\ ~a.tta /\ ~a.has_stop_event }
    /\ InitRun
    /\ output = OutputFile(FALSE)
    /\ images = NoImages
    /\ \E depth \in DepthGrids, given \in BOOLEAN, lo \in DepthValues, hi \in DepthValues :
          /\ ~given => (lo = 0 /\ hi = 0)
          /\ tensor = [fn |-> "normalize_depth", depth |-> depth, given |-> given,
                       depth_min |-> lo, depth_max |-> hi, done |-> FALSE, out |-> <<>>]

NormalizeDepth ==
    /\ pc = "normalize_depth"
    /\ ~tensor.done
    /\ tensor' = [tensor EXCEPT
           !.done = TRUE,
           !.out = normalize_depth(tensor.depth, tensor.given, tensor.depth_min,
                                   tensor.depth_max)]
    /\ UNCHANGED <<pc, args, stop_event, images>>
    /\ UNCHANGED video_vars

NextDepth == NormalizeDepth

SpecDepth == InitDepth /\ [][NextDepth]_vars

\* ---------------------------- iw3/utils.py: apply_divergence_grid_sample
\* One row of a picture: mesh_y is not shifted, so the rows are sampled alone.
\* Coordinates are exact integers in the unit given with each operator.
Percent == 100

Levels == 0..MaxLevel

\* shift_size = (-shift * divergence * 0.01), in 1 / Percent
shift_size(shift, divergence) == (0 - shift) * divergence

\* Variant: the convergence is not scaled by shift_size.
index_shift_unscaled(depth, ss, convergence) ==
    [j \in 1..Len(depth) |-> depth[j] * ss - Percent * convergence]

\* index_shift = depth * shift_size - (shift_size * convergence),
\* in 1 / (Percent * MaxLevel)
index_shift(depth, ss, convergence) ==
    [j \in 1..Len(depth) |-> depth[j] * ss - ss * convergence]

\* torch.linspace(-1, 1, w), in 1 / (Percent * MaxLevel * (w - 1))
linspace(w) == [j \in 1..w |-> Percent * MaxLevel * (2 * (j - 1) - (w - 1))]

\* mesh_x - index_shift, in the unit of linspace
shifted_grid(w, shift) == [j \in 1..w |-> linspace(w)[j] - shift[j] * (w - 1)]

\* Sub-pixel positions per pixel.
Sub == 2 * Percent * MaxLevel

\* align_corners=True: ((x + 1) / 2) * (w - 1), in 1 / Sub of a pixel, first pixel 0
unnormalize(x, w) == x + Percent * MaxLevel * (w - 1)

\* Cubic convolution weights (A = -0.75) of the four taps around a position r / Sub
\* past a pixel, times 4 * Sub^3.
cubic_weights(r) ==
    <<(0 - 3) * r * (Sub - r) * (Sub - r),
      5 * r * r * r - 9 * Sub * r * r + 4 * Sub * Sub * Sub,
      5 * (Sub - r) * (Sub - r) * (Sub - r) - 9 * Sub * (Sub - r) * (Sub - r)
          + 4 * Sub * Sub * Sub,
      (0 - 3) * (Sub - r) * r * r>>

\* padding_mode="border": a tap outside the row reads the nearest pixel.
border(i, w) == IF i < 1 THEN 1 ELSE IF i > w THEN w ELSE i

\* F.grid_sample(..., mode="bicubic", padding_mode="border", align_corners=True)
\* along x, then torch.clamp(z, 0., 1.)
grid_sample(c, grid) ==
    LET w == Len(c)
    IN [j \in 1..w |->
          LET ix == unnormalize(grid[j], w)
              f == (ix \div Sub) + 1
              k == cubic_weights(ix % Sub)
          IN clamp01(Num(k[1] * c[border(f - 1, w)] + k[2] * c[border(f, w)]
                         + k[3] * c[border(f + 1, w)] + k[4] * c[border(f + 2, w)],
                         4 * Sub * Sub * Sub))]

apply_divergence_grid_sample(c, depth, divergence, convergence, shift) ==
    LET is == index_shift(depth, shift_size(shift, divergence), convergence)
        grid == shifted_grid(Len(c), is)
    IN [index_shift |-> is, grid |-> grid, z |-> grid_sample(c, grid)]

Rows(values) == UNION { [1..w -> values] : w \in 2..MaxW }

InitWarp ==
    /\ pc = "postprocess_image"
    /\ args \in { a \in FullArgs : a.low_vram /\ ~a.tta /\ ~a.has_stop_event }
    /\ InitRun
    /\ output = OutputFile(FALSE)
    /\ images = NoImages
    /\ \E c \in Rows({0, 1}), depth \in Rows(Levels),
          divergence \in 0..MaxDivergence, convergence \in Levels :
          /\ Len(c) = Len(depth)
          /\ tensor = [fn |-> "grid_sample", c |-> c, depth |-> depth,
                       divergence |-> divergence, convergence |-> convergence,
                       done |-> FALSE, left_eye |-> <<>>, right_eye |-> <<>>]

\* postprocess_image, method "grid_sample": the left eye with shift -1, the right
\* eye with shift 1.
WarpEyes ==
    /\ pc = "postprocess_image"
    /\ ~tensor.done
    /\ tensor' = [tensor EXCEPT
           !.done = TRUE,
           !.left_eye = apply_divergence_grid_sample(
                            tensor.c, tensor.depth, tensor.divergence,
                            tensor.convergence, 0 - 1),
           !.right_eye = apply_divergence_grid_sample(
                            tensor.c, tensor.depth, tensor.divergence,
                            tensor.convergence, 1)]
    /\ UNCHANGED <<pc, args, stop_event, images>>
    /\ UNCHANGED video_vars

NextWarp == WarpEyes

SpecWarp == InitWarp /\ [][NextWarp]_vars

\* --------------------------------------------- iw3/utils.py: batch_infer
\* torch.flip(x, dims=[3]): every picture of the batch mirrored along its width
flip(x) == [i \in 1..Len(x) |-> [j \in 1..Len(x[i]) |-> x[i][Len(x[i]) + 1 - j]]]

\* model(x)['metric_depth']: the depth model is a deterministic function of each
\* picture of the batch; this stand-in is not mirror-symmetric.
metric_depth(x) ==
    [i \in 1..Len(x) |-> [j \in 1..Len(x[i]) |-> x[i][j] + (IF j = 1 THEN 1 ELSE 0)]]

\* (a + b) * s, element by element
scaled_sum(a, b, s) == [j \in 1..Len(a) |-> (a[j] + b[j]) * s]

\* Lines 113-122: the two halves of `out` are joined picture by picture.
join_halves(out, flip_aug) ==
    IF flip_aug
    THEN LET n == Len(out) \div 2
         IN [i \in 1..n |-> scaled_sum(out[i], flip(out)[i + n], 128)]
    ELSE [i \in 1..Len(out) |-> [j \in 1..Len(out[i]) |-> out[i][j] * 256]]

\* Variant: normal mode runs the mirrored copy in a call of its own.
batch_infer_two_calls(x, flip_aug, low_vram) ==
    IF flip_aug
    THEN [calls |-> <<x, flip(x)>>,
          z |-> join_halves(metric_depth(x) \o metric_depth(flip(x)), flip_aug)]
    ELSE [calls |-> <<x>>, z |-> join_halves(metric_depth(x), flip_aug)]

\* batch_infer(model, im, flip_aug, low_vram): the inputs of the model calls in
\* the order they are issued, and the result.  The reflect padding before a call
\* and the crop after it cancel and are left out.
batch_infer(x, flip_aug, low_vram) ==
    IF ~low_vram
    THEN LET xx == IF flip_aug THEN x \o flip(x) ELSE x
         IN [calls |-> <<xx>>, z |-> join_halves(metric_depth(xx), flip_aug)]
    ELSE IF flip_aug
         THEN [calls |-> <<x, flip(x)>>,
               z |-> join_halves(metric_depth(x) \o metric_depth(flip(x)), flip_aug)]
         ELSE [calls |-> <<x>>, z |-> join_halves(metric_depth(x), flip_aug)]

\* A single picture (process_image_impl) or the stacked queue (run_minibatch,
\* which only runs without --low-vram).
Batches(w) == UNION { [1..n -> [1..w -> {0, 1}]] : n \in 1..MaxBatch }

InitInfer ==
    /\ pc = "batch_infer"
    /\ args \in { a \in FullArgs :
                     /\ a.low_vram \/ a.zoed_batch_size = MaxBatch
                     /\ ~a.has_stop_event }
    /\ InitRun
    /\ output = OutputFile(FALSE)
    /\ images = NoImages
    /\ \E w \in 2..MaxW, batch \in BOOLEAN :
          \E x \in Batches(w) :
             /\ batch => ~args.low_vram
             /\ ~batch => Len(x) = 1
             /\ tensor = [fn |-> "batch_infer", batch |-> batch, x |-> x,
                          done |-> FALSE, calls |-> <<>>, z |-> <<>>]

BatchInfer ==
    /\ pc = "batch_infer"
    /\ ~tensor.done
    /\ LET r == batch_infer(tensor.x, args.tta, args.low_vram)
       IN tensor' = [tensor EXCEPT !.done = TRUE, !.calls = r.calls, !.z = r.z]
    /\ UNCHANGED <<pc, args, stop_event, images>>
    /\ UNCHANGED video_vars

NextInfer == BatchInfer

SpecInfer == InitInfer /\ [][NextInfer]_vars

\* ================================================================ claims
Max(a, b) == IF a >= b THEN a ELSE b

\* C1: for the synthesis callback, in batched and in low-memory mode, for every
\* batch threshold and any sequence of pushes and flushes: frames returned plus
\* frames pending in the queue equal frames pushed at every point, and after a
\* flush the frames returned equal the frames pushed.
C1_FramesConserved ==
    /\ cb.returned + Len(minibatch_queue) = cb.pushed
    /\ cb.last.arg = "none" => cb.returned = cb.pushed
    /\ args.low_vram => cb.returned = cb.pushed

\* A flush of a partial batch after three pushes with threshold 2.
C1_Witness ==
    /\ ~args.low_vram
    /\ minibatch_size = 2
    /\ cb.pushed = 3
    /\ cb.last.arg = "none"
    /\ cb.last.returned = 1

\* C7: in batched mode the threshold T is the depth batch size, halved (integer
\* division) under flip augmentation, at least 1; inference runs exactly when a push
\* makes the queue reach T (on exactly T frames) or on a flush of a non-empty queue
\* (on the partial batch); any other push returns nothing and runs no inference, and
\* a flush of an empty queue runs no inference.
C7_Threshold ==
    IF args.tta THEN Max(args.zoed_batch_size \div 2, 1) ELSE args.zoed_batch_size

C7_BatchTrigger ==
    (~args.low_vram /\ cb.calls > 0) =>
        /\ minibatch_size = C7_Threshold
        /\ cb.last.arg = "frame" =>
              IF cb.last.before + 1 = C7_Threshold
              THEN cb.last.batch = C7_Threshold /\ cb.last.returned = C7_Threshold
              ELSE /\ cb.last.before + 1 < C7_Threshold
                   /\ cb.last.batch = 0
                   /\ cb.last.returned = 0
                   /\ Len(minibatch_queue) = cb.last.before + 1
        /\ cb.last.arg = "none" =>
              /\ cb.last.batch = cb.last.before
              /\ cb.last.returned = cb.last.before
              /\ minibatch_queue = <<>>

\* Flip augmentation with depth batch size 3: the threshold is 1 and the second
\* push ran a batch of one.
C7_Witness ==
    /\ ~args.low_vram
    /\ args.tta
    /\ args.zoed_batch_size = 3
    /\ cb.pushed = 2
    /\ cb.last.arg = "frame"
    /\ cb.last.batch = 1

\* ------------------------------------------------- helpers of the claims
Ids(fs) == [i \in 1..Len(fs) |-> fs[i].id]
IsPrefix(a, b) == Len(a) <= Len(b) /\ SubSeq(b, 1, Len(a)) = a
IsVideo(p) == p.stream = "video"
IsAudio(p) == p.stream = "audio"
IsReal(i) == i > 0
HasDts(p) == p.dts
VideoMuxed == SelectSeq(output.muxed, IsVideo)
AudioMuxed == SelectSeq(output.muxed, IsAudio)
InLoop == pc \in {"demux", "video", "audio", "poll"}
InEndOfStream ==
    pc \in {"flush_filter", "flush_callback", "flush_encoder", "close_output",
            "close_input", "done"}
EndOfStreamSteps == <<"rate_filter", "callback", "encoder", "close_output", "close_input">>

\* C2: after end-of-stream is pushed into the rate filter, every frame the filter
\* still holds is pulled, synthesized, encoded and muxed before the containers are
\* closed: when the output container closes the filter holds no frame and every
\* frame it produced is in the output.
C2_FilterDrained ==
    output.closed =>
        /\ fps_filter.sink = <<>>
        /\ Ids(VideoMuxed) = [i \in 1..fps_filter.produced |-> i]

\* C3: the end-of-stream steps run in the order rate filter, synthesis callback,
\* video encoder, close output, close input, none skipped; what each yields is
\* encoded and muxed, and nothing is muxed once the output container is closed.
C3_EndOfStreamOrder ==
    /\ [](IsPrefix(eos, EndOfStreamSteps))
    /\ [](pc = "done" /\ ~args.keyframe =>
            /\ eos = EndOfStreamSteps
            /\ minibatch_queue = <<>>
            /\ video_stream.buf = <<>>
            /\ Ids(VideoMuxed) = Ids(video_stream.encoded)
            /\ output.closed /\ input.closed)
    /\ [](input.closed /\ ~args.keyframe => output.closed)
    /\ [][output.closed => output' = output]_vars

\* The callback's flush returned frames and the run finished with three frames muxed.
C3_Witness ==
    /\ pc = "done"
    /\ ~args.keyframe
    /\ cb.last.arg = "none"
    /\ cb.last.returned = 1
    /\ Len(VideoMuxed) = 3

\* C4: with a cancellation flag, it is polled once per demuxed packet; once a poll
\* sees it set nothing more is demuxed or decoded, the end-of-stream sequence and the
\* closing of both containers still run, and the frames pending in the queue at
\* cancellation are encoded.
C4_Cancellation ==
    /\ [](~args.keyframe /\ args.has_stop_event =>
            loop.polls = input.demuxed - (IF pc \in {"video", "audio", "poll"} THEN 1 ELSE 0))
    /\ [][(~args.keyframe /\ loop.observed) =>
            /\ input'.demuxed = input.demuxed
            /\ input'.decoded = input.decoded
            /\ pc' \notin {"demux", "video", "audio", "poll"}]_vars
    /\ [](~args.keyframe /\ loop.observed => InEndOfStream)
    /\ [](~args.keyframe /\ loop.observed /\ pc = "done" =>
            /\ eos = EndOfStreamSteps
            /\ output.closed /\ input.closed
            /\ minibatch_queue = <<>>
            /\ Ids(video_stream.encoded) = loop.emitted
            /\ Ids(VideoMuxed) = loop.emitted)

\* Cancelled after the first packet with two frames pending, which the flush encoded.
C4_Witness ==
    /\ pc = "done"
    /\ loop.observed
    /\ input.demuxed = 1
    /\ cb.last.arg = "none"
    /\ cb.last.before = 2
    /\ Len(VideoMuxed) = 2

\* C5: every frame the rate filter emits is passed to the synthesis callback exactly
\* once, and the synthesized frames reach the video encoder in the order the filter
\* emitted their sources, across batches and the final flush, none twice.
C5_EncodeOrder ==
    /\ SelectSeq(cb.frames, IsReal) = loop.emitted
    /\ IsPrefix(Ids(video_stream.encoded), loop.emitted)
    /\ (InLoop \/ pc \in {"flush_filter", "flush_callback"}) =>
          Ids(video_stream.encoded) \o Ids(minibatch_queue) = loop.emitted
    /\ pc \in {"flush_encoder", "close_output", "close_input", "done"} =>
          Ids(video_stream.encoded) = loop.emitted
    /\ \A i \in 1..Len(video_stream.encoded) :
          video_stream.encoded[i] = postprocess_image(Picture(loop.emitted[i]))

\* Three frames through batches of two: one full batch and the flushed rest.
C5_Witness ==
    /\ pc = "done"
    /\ ~args.low_vram
    /\ minibatch_size = 2
    /\ Ids(video_stream.encoded) = <<1, 2, 3>>

\* C6: in batched mode the queue holds fewer frames than the batch threshold after
\* every return of the callback, and none after a flush.
C6_QueueBounded ==
    ~args.low_vram =>
        /\ Len(minibatch_queue) < minibatch_size
        /\ cb.last.arg = "none" => minibatch_queue = <<>>
        /\ InEndOfStream /\ pc # "flush_filter" /\ pc # "flush_callback" =>
              minibatch_queue = <<>>

\* Two frames pending under threshold 3 in the demux loop.
C6_Witness ==
    /\ ~args.low_vram
    /\ minibatch_size = 3
    /\ pc = "poll"
    /\ Len(minibatch_queue) = 2

\* C8: the audio policy is decided once, before the demux loop, and never changes;
\* audio is transcoded exactly when the source rate is below 16000 Hz or the output
\* stream could not be created from the source's codec parameters, and is passed
\* through otherwise; that failure is not fatal.
C8_AudioPolicy ==
    /\ [](audio.copy # "unset" =>
            /\ input.has_audio
            /\ audio.copy = "transcode" <=> (audio.rate < 16000 \/ audio.template_fails))
    /\ []((input.has_audio /\ (InLoop \/ InEndOfStream)) => audio.copy # "unset")
    /\ [](input.demuxed > 0 /\ input.has_audio => audio.copy # "unset")
    /\ [][audio.copy # "unset" => audio'.copy = audio.copy]_vars
    /\ [](\A i \in 1..Len(AudioMuxed) :
            AudioMuxed[i].reencoded <=> audio.copy = "transcode")
    /\ [](audio.copy = "copy" => audio.encoded = <<>>)
    /\ [](audio.template_fails => pc # "error" /\ audio.copy = "transcode")

\* The codec parameters could not be shared, and the run finished with a re-encoded
\* audio packet in the output.
C8_Witness ==
    /\ pc = "done"
    /\ audio.template_fails
    /\ audio.rate = 16000
    /\ Len(AudioMuxed) > 0

\* C9 as stated: in passthrough mode every demuxed audio packet is in the output
\* once, in demux order, not re-encoded.
C9_EveryPacketCopied ==
    (audio.copy = "copy" /\ pc # "audio") =>
        /\ Ids(AudioMuxed) = Ids(loop.audio_in)
        /\ \A i \in 1..Len(AudioMuxed) : ~AudioMuxed[i].reencoded

\* C9 amended: in passthrough mode every demuxed audio packet that carries a decode
\* timestamp (dts) is in the output once, in demux order, neither decoded nor
\* re-encoded; an audio packet without dts is skipped.
C9_PacketsWithDtsCopied ==
    (audio.copy = "copy" /\ pc # "audio") =>
        /\ Ids(AudioMuxed) = Ids(SelectSeq(loop.audio_in, HasDts))
        /\ \A i \in 1..Len(AudioMuxed) : ~AudioMuxed[i].reencoded
        /\ audio.encoded = <<>>
        /\ audio.buf = <<>>

\* Two audio packets, the first without dts: only the second is copied.
C9_Witness ==
    /\ audio.copy = "copy"
    /\ pc = "done"
    /\ Len(loop.audio_in) = 2
    /\ ~loop.audio_in[1].dts
    /\ Ids(AudioMuxed) = <<2>>

\* C10: without a video stream process_video and process_video_keyframes fail before
\* the output container is opened; the callback is never invoked and nothing is
\* written.
C10_NoVideoStream ==
    /\ (input.opened /\ ~input.has_video) =>
          /\ pc = "error"
          /\ ~output.opened
          /\ output.muxed = <<>>
          /\ cb.calls = 0
          /\ kf.called = <<>>
    /\ pc = "error" => input.opened /\ ~input.has_video

\* process_video stopped with the error.
C10_Witness ==
    /\ pc = "error"
    /\ ~args.keyframe
    /\ input.opened
    /\ ~input.has_video

\* C11: process_video_full never overwrites an existing output file unless --yes is
\* set or the prompt was answered y/ye/yes: with --resume the file is skipped without
\* processing, also when --yes is set; with neither flag the prompt is shown, and any
\* other answer returns without calling the pipeline or opening the output.
C11_Affirmative == output.prompted /\ output.answer \in {"y", "ye", "yes", "Y", "Yes"}

C11_Decided == pc \notin {"start", "pvf"}

C11_NoSilentOverwrite ==
    /\ (output.exists /\ pc \notin {"start", "pvf", "skipped"}) =>
          ~args.resume /\ (args.yes \/ C11_Affirmative)
    /\ (output.exists /\ (output.opened \/ input.opened \/ cb.calls > 0)) =>
          ~args.resume /\ (args.yes \/ C11_Affirmative)
    /\ (output.exists /\ args.resume /\ C11_Decided) =>
          pc = "skipped" /\ ~output.prompted
    /\ (output.exists /\ ~args.resume /\ ~args.yes /\ C11_Decided) =>
          /\ output.prompted
          /\ ~C11_Affirmative => pc = "skipped"
    /\ output.prompted => output.exists /\ ~args.resume /\ ~args.yes
    /\ pc = "skipped" =>
          /\ output.exists
          /\ ~output.opened /\ ~input.opened
          /\ cb.calls = 0 /\ output.muxed = <<>>

\* The prompt over an existing file was answered "no": nothing was processed.
C11_Witness ==
    /\ pc = "skipped"
    /\ output.exists
    /\ ~args.resume /\ ~args.yes
    /\ output.prompted
    /\ output.answer = "no"

\* C12: in keyframe mode any two frames passed to the callback have timestamps,
\* rounded to whole seconds, that differ by at least min_interval_sec, and a frame
\* closer than that to the last processed frame is discarded without invoking the
\* callback.
C12_Processed(i) == { j \in 1..(i - 1) : kf.seen[j].called }

C12_LastProcessed(i) ==
    kf.seen[CHOOSE j \in C12_Processed(i) : \A k \in C12_Processed(i) : k <= j].sec

C12_IsCalled(f) == f.called

C12_OnePerInterval ==
    args.keyframe =>
        /\ \A i, j \in 1..Len(kf.called) :
              i < j => kf.called[j] - kf.called[i] >= args.keyframe_interval
        /\ \A i \in 1..Len(kf.seen) :
              (/\ C12_Processed(i) # {}
               /\ kf.seen[i].sec - C12_LastProcessed(i) < args.keyframe_interval)
                  => ~kf.seen[i].called
        /\ kf.called = [i \in 1..Len(SelectSeq(kf.seen, C12_IsCalled)) |->
                           SelectSeq(kf.seen, C12_IsCalled)[i].sec]
        /\ Len(kf.seen) = kf.decoded

\* Interval 2: of three keyframes the one a second after a processed one is dropped.
C12_Witness ==
    /\ args.keyframe
    /\ args.keyframe_interval = 2
    /\ Len(kf.seen) = 3
    /\ kf.seen[1].called /\ ~kf.seen[2].called /\ kf.seen[3].called
    /\ kf.seen[2].sec - kf.seen[1].sec = 1

\* C13 as stated: before the video encoder stream is created the callback is primed
\* with exactly one invocation, for every batch size and mode, and the dimensions of
\* the resulting frame are the width and height of the output video stream.
C13_OneInvocation ==
    video_stream.created =>
        /\ loop.primed = 1
        /\ <<video_stream.width, video_stream.height>> = <<SrcW + SrcW, SrcH>>

\* C13 amended: before the video encoder stream is created the callback is primed
\* with synthetic frames until it returns a frame: one invocation in low-memory mode,
\* as many invocations as the batch threshold in batched mode; the dimensions of the
\* first frame it returns are the width and height of the output video stream.
C13_PrimedUntilFrame ==
    /\ video_stream.created =>
          /\ loop.primed = (IF args.low_vram THEN 1 ELSE C7_Threshold)
          /\ <<video_stream.width, video_stream.height>> = <<SrcW + SrcW, SrcH>>
          /\ <<video_stream.width, video_stream.height>> = loop.output_size
    /\ pc = "add_streams" =>
          /\ ~video_stream.created
          /\ cb.calls = loop.primed
          /\ cb.last.returned > 0
    /\ pc \in {"start", "pvf", "pv_open", "prime"} =>
          ~video_stream.created /\ loop.primed = 0

\* Batch threshold 3: the stream was created after three priming invocations.
C13_Witness ==
    /\ video_stream.created
    /\ ~args.low_vram
    /\ minibatch_size = 3
    /\ loop.primed = 3

\* C14: in process_images, with up to 4 concurrent write workers, a failed write
\* task is raised out of process_images when its result is awaited, not when it is
\* submitted, and ends the batch; every write that completed has left its file on
\* disk, and no write task is running when process_images returns or raises.
C14_Returned == pc \in {"im_done", "im_raised"}

C14_Failed == { i \in 1..Len(images.tasks) : images.tasks[i] = "failed" }

C14_WriteFailure ==
    /\ Cardinality(Running(images.tasks)) <= 4
    /\ pc = "im_loop" => ~images.raised /\ images.awaited = 0
    /\ images.raised =>
          /\ images.awaited < Len(images.tasks)
          /\ images.tasks[images.awaited + 1] = "failed"
          /\ \A i \in 1..images.awaited : images.tasks[i] = "done"
          /\ pc \in {"im_exit", "im_raised"}
    /\ pc = "im_raised" => images.raised /\ ~images.pbar.closed
    /\ pc = "im_done" =>
          /\ C14_Failed = {}
          /\ images.awaited = Len(images.tasks)
    /\ (pc = "im_exit" /\ ~images.raised) => C14_Failed = {}
    /\ images.written = { i \in 1..Len(images.tasks) : images.tasks[i] = "done" }
    /\ C14_Returned => Unfinished(images.tasks) = {}
    /\ Len(images.tasks) = images.synthesized

\* The second of three writes failed; the first and the third left their files, and
\* process_images raised.
C14_Witness ==
    /\ pc = "im_raised"
    /\ images.tasks = <<"done", "failed", "done">>
    /\ images.written = {1, 3}

\* C15: in process_images the cancellation flag is checked once per image the loader
\* yields, processed or skipped, and after a check sees it set no further image is
\* synthesized or submitted for writing.
C15_CheckedPerImage ==
    /\ args.has_stop_event => images.polls = images.yielded
    /\ images.observed =>
          /\ pc # "im_loop"
          /\ images.synthesized = images.at_stop
          /\ Len(images.tasks) = images.at_stop

\* C16: normalize_depth on a grid with depth_max - depth_min = 0, computed from the
\* grid or supplied by the caller, returns an all-zero grid and never NaN; for every
\* input grid every output value lies in [0, 1].
C16_Range ==
    IF tensor.given THEN tensor.depth_max - tensor.depth_min
    ELSE SeqMax(tensor.depth) - SeqMin(tensor.depth)

C16_ZeroOnConstant ==
    (tensor.fn = "normalize_depth" /\ tensor.done) =>
        /\ Len(tensor.out) = Len(tensor.depth)
        /\ C16_Range = 0 =>
              \A i \in 1..Len(tensor.out) : ~tensor.out[i].nan /\ tensor.out[i].n = 0
        /\ \A i \in 1..Len(tensor.out) :
              /\ ~tensor.out[i].nan
              /\ tensor.out[i].d > 0
              /\ 0 <= tensor.out[i].n
              /\ tensor.out[i].n <= tensor.out[i].d

\* A grid of three equal values: the result is three zeros.
C16_Witness ==
    /\ tensor.fn = "normalize_depth"
    /\ tensor.done
    /\ ~tensor.given
    /\ tensor.depth = <<2, 2, 2>>
    /\ tensor.out = <<Num(0, 1), Num(0, 1), Num(0, 1)>>

\* C17: with divergence = 0, for every depth map and every convergence in [0, 1], the
\* per-pixel horizontal offset of both eyes is 0, so both sampling grids are the
\* identity grid and both outputs equal the source frame.
C17_Identity(w) == [j \in 1..w |-> Percent * MaxLevel * (2 * (j - 1) - (w - 1))]

C17_SameAsSource(z, c) ==
    /\ Len(z) = Len(c)
    /\ \A j \in 1..Len(z) : ~z[j].nan /\ z[j].n = c[j] * z[j].d

C17_ZeroDivergence ==
    (tensor.fn = "grid_sample" /\ tensor.done /\ tensor.divergence = 0) =>
        /\ \A j \in 1..Len(tensor.c) :
              /\ tensor.left_eye.index_shift[j] = 0
              /\ tensor.right_eye.index_shift[j] = 0
        /\ tensor.left_eye.grid = C17_Identity(Len(tensor.c))
        /\ tensor.right_eye.grid = tensor.left_eye.grid
        /\ C17_SameAsSource(tensor.left_eye.z, tensor.c)
        /\ C17_SameAsSource(tensor.right_eye.z, tensor.c)

\* A row of three pixels over a depth ramp, convergence 1/2, divergence 0.
C17_Witness ==
    /\ tensor.fn = "grid_sample"
    /\ tensor.done
    /\ tensor.divergence = 0
    /\ tensor.c = <<0, 1, 1>>
    /\ tensor.depth = <<0, 1, 2>>
    /\ tensor.convergence = 1
    /\ tensor.left_eye.z = tensor.right_eye.z

\* C18: batch_infer issues its depth-inference calls one after the other: in normal
\* mode exactly one call (with flip augmentation on the original and the mirrored copy
\* concatenated, split afterwards); in low-memory mode exactly two calls with flip
\* augmentation, the original first and the mirrored copy second, and exactly one
\* without.
C18_Mirrored(x) == [i \in 1..Len(x) |-> [j \in 1..Len(x[i]) |-> x[i][Len(x[i]) + 1 - j]]]

C18_ModelCalls ==
    (tensor.fn = "batch_infer" /\ tensor.done) =>
        /\ (~args.low_vram /\ args.tta) =>
              tensor.calls = <<tensor.x \o C18_Mirrored(tensor.x)>>
        /\ (~args.low_vram /\ ~args.tta) => tensor.calls = <<tensor.x>>
        /\ (args.low_vram /\ args.tta) =>
              tensor.calls = <<tensor.x, C18_Mirrored(tensor.x)>>
        /\ (args.low_vram /\ ~args.tta) => tensor.calls = <<tensor.x>>
        /\ Len(tensor.z) = Len(tensor.x)

\* Low-memory mode with flip augmentation: two calls for one picture.
C18_Witness ==
    /\ tensor.fn = "batch_infer"
    /\ tensor.done
    /\ args.low_vram /\ args.tta
    /\ tensor.x = <<<<0, 1, 1>>>>
    /\ tensor.calls = <<<<<<0, 1, 1>>>>, <<<<1, 1, 0>>>>>>

\* C19: when priming returns, the minibatch queue is empty and the run's rate filter
\* has received no synthetic frame, for every batch threshold and in both modes; no
\* synthetic priming frame is ever encoded into the output, and the first encoded
\* frame derives from the first real frame the rate filter emitted.
C19_Synthetic(fs) == { i \in 1..Len(fs) : fs[i].id <= 0 }

C19_PrimingLeavesNothing ==
    ~args.keyframe =>
        /\ pc = "add_streams" =>
              /\ minibatch_queue = <<>>
              /\ fps_filter = [sink |-> <<>>, produced |-> 0]
              /\ loop.primed > 0
              /\ Len(cb.frames) = loop.primed
              /\ \A i \in 1..Len(cb.frames) : cb.frames[i] < 0
        /\ C19_Synthetic(fps_filter.sink) = {}
        /\ loop.primed > 0 => C19_Synthetic(minibatch_queue) = {}
        /\ C19_Synthetic(video_stream.encoded) = {}
        /\ C19_Synthetic(video_stream.buf) = {}
        /\ C19_Synthetic(VideoMuxed) = {}
        /\ video_stream.encoded # <<>> =>
              /\ loop.emitted # <<>>
              /\ video_stream.encoded[1].id = loop.emitted[1]

\* Primed with three synthetic frames under threshold 3; the run then encoded a frame.
C19_Witness ==
    /\ ~args.low_vram
    /\ minibatch_size = 3
    /\ loop.primed = 3
    /\ pc = "done"
    /\ Len(video_stream.encoded) >= 2
    /\ video_stream.encoded[1].id = 1

\* C20: in keyframe mode the callback is never invoked for a frame whose timestamp,
\* rounded up to whole seconds, is smaller than min_interval_sec: the reference time
\* starts at 0 and only advances when a frame is processed. With a positive interval a
\* keyframe at timestamp 0 is never processed, and a video whose last keyframe lies
\* before the interval produces no output frame.
C20_RoundedUp(pts) ==
    CHOOSE n \in 0..(pts + 1) : n * TicksPerSec >= pts /\ (n - 1) * TicksPerSec < pts

C20_FirstInterval ==
    args.keyframe =>
        /\ \A i \in 1..Len(kf.seen) :
              /\ kf.seen[i].sec = C20_RoundedUp(kf.seen[i].pts)
              /\ kf.seen[i].sec < args.keyframe_interval => ~kf.seen[i].called
              /\ (args.keyframe_interval > 0 /\ kf.seen[i].pts = 0) => ~kf.seen[i].called
        /\ \A i \in 1..Len(kf.called) : kf.called[i] >= args.keyframe_interval
        /\ (kf.seen # <<>> /\ kf.seen[Len(kf.seen)].sec < args.keyframe_interval) =>
              kf.called = <<>>
        /\ kf.prev_sec = (IF kf.called = <<>> THEN 0 ELSE kf.called[Len(kf.called)])

\* Interval 2: keyframes at 0 s, 0.5 s and 1 s were all decoded and none was processed.
C20_Witness ==
    /\ args.keyframe
    /\ args.keyframe_interval = 2
    /\ pc = "done"
    /\ Len(kf.seen) = 3
    /\ kf.seen[1].pts = 0
    /\ kf.seen[3].pts = 2
    /\ kf.called = <<>>

\* C21: in transcode mode, at end-of-stream (normal end or cancellation), the audio
\* encoder is flushed and its remaining packets are muxed before the output container
\* is closed: every audio frame handed to the audio encoder has its packets in the
\* output, and none is left buffered in the encoder at close.
C21_AudioEncoderFlushed ==
    (output.closed /\ audio.copy = "transcode") =>
        /\ audio.buf = <<>>
        /\ Ids(AudioMuxed) = audio.encoded

====
